---- MODULE Spec2Model ----
(***************************************************************************)
(* CORD-19 metadata explorer: the CORD19Analyzer class                     *)
(* (src/data_Analysis.py) and the Streamlit script that drives it          *)
(* (src/app.py).                                                           *)
(*                                                                         *)
(* A text is a sequence of one-character strings, so that lower(),         *)
(* strip(), split() and the regular expression of create_word_cloud are    *)
(* computed character by character.  An optional value (a pandas cell      *)
(* that may be NaN/NaT, an attribute that may be None) is a sequence of    *)
(* length 0 (absent) or 1 (present).                                       *)
(***************************************************************************)
EXTENDS Integers, Sequences, FiniteSets, TLC

(***************************************************************************)
(* Bounds of the model.                                                    *)
(***************************************************************************)
\* rows of the table the files are cut from
MaxRows == 4
\* largest top_n / max_words / n argument tried (top_n also runs down to -MaxArg)
MaxArg == 2
\* clean_data calls in a row that are told apart
MaxCleans == 2

(***************************************************************************)
(* Optional values.                                                        *)
(***************************************************************************)
None == << >>

Some(x) == << x >>

IsNone(o) == Len(o) = 0

NotNone(o) == Len(o) = 1

Get(o) == o[1]

(***************************************************************************)
(* Characters and str methods.                                             *)
(***************************************************************************)
LowerLetters ==
    {"a", "b", "c", "d", "e", "f", "g", "h", "i", "j", "k", "l", "m",
     "n", "o", "p", "q", "r", "s", "t", "u", "v", "w", "x", "y", "z"}

UpperLetters ==
    {"A", "B", "C", "D", "E", "F", "G", "H", "I", "J", "K", "L", "M",
     "N", "O", "P", "Q", "R", "S", "T", "U", "V", "W", "X", "Y", "Z"}

Digits == {"0", "1", "2", "3", "4", "5", "6", "7", "8", "9"}

Whitespace == {" "}

LowerOf ==
    "A" :> "a" @@ "B" :> "b" @@ "C" :> "c" @@ "D" :> "d" @@ "E" :> "e" @@ "F" :> "f" @@
    "G" :> "g" @@ "H" :> "h" @@ "I" :> "i" @@ "J" :> "j" @@ "K" :> "k" @@ "L" :> "l" @@
    "M" :> "m" @@ "N" :> "n" @@ "O" :> "o" @@ "P" :> "p" @@ "Q" :> "q" @@ "R" :> "r" @@
    "S" :> "s" @@ "T" :> "t" @@ "U" :> "u" @@ "V" :> "v" @@ "W" :> "w" @@ "X" :> "x" @@
    "Y" :> "y" @@ "Z" :> "z"

DigitVal ==
    "0" :> 0 @@ "1" :> 1 @@ "2" :> 2 @@ "3" :> 3 @@ "4" :> 4 @@
    "5" :> 5 @@ "6" :> 6 @@ "7" :> 7 @@ "8" :> 8 @@ "9" :> 9

\* [a-zA-Z]
IsAlpha(c) == c \in LowerLetters \cup UpperLetters

\* \w, the characters on neither side of which \b holds
IsWordChar(c) == IsAlpha(c) \/ c \in Digits \/ c = "_"

\* str.lower()
lower(s) ==
    [i \in 1..Len(s) |-> IF s[i] \in UpperLetters THEN LowerOf[s[i]] ELSE s[i]]

RECURSIVE lstrip(_)
lstrip(s) ==
    IF s # << >> /\ Head(s) \in Whitespace THEN lstrip(Tail(s)) ELSE s

RECURSIVE rstrip(_)
rstrip(s) ==
    IF s # << >> /\ s[Len(s)] \in Whitespace
    THEN rstrip(SubSeq(s, 1, Len(s) - 1))
    ELSE s

\* str.strip()
strip(s) == rstrip(lstrip(s))

\* len(str(x).split()): the maximal runs of non-whitespace characters
split_len(s) ==
    Cardinality({i \in 1..Len(s) :
                    /\ s[i] \notin Whitespace
                    /\ (i = 1 \/ s[i - 1] \in Whitespace)})

\* ' '.join(texts)
RECURSIVE join(_)
join(texts) ==
    IF texts = << >> THEN << >>
    ELSE IF Len(texts) = 1 THEN texts[1]
    ELSE texts[1] \o << " " >> \o join(Tail(texts))

(***************************************************************************)
(* re.findall(r'\b[a-zA-Z]{3,}\b', text) and collections.Counter.          *)
(***************************************************************************)
\* {3,}: the shortest run of letters the pattern accepts
MinWordLen == 3

\* words must occur more often than this to be kept
MinCount == 10

\* The maximal runs of \w characters of s[lo..hi], in order, found by
\* halving: left and right tell whether the first run starts at lo and the
\* last one ends at hi, where a run of the other half may continue it.
RECURSIVE word_runs(_, _, _)
word_runs(s, lo, hi) ==
    IF lo > hi THEN [runs |-> << >>, left |-> FALSE, right |-> FALSE]
    ELSE IF lo = hi
    THEN (IF IsWordChar(s[lo])
          THEN [runs |-> << << s[lo] >> >>, left |-> TRUE, right |-> TRUE]
          ELSE [runs |-> << >>, left |-> FALSE, right |-> FALSE])
    ELSE LET mid == (lo + hi) \div 2
             a == word_runs(s, lo, mid)
             b == word_runs(s, mid + 1, hi)
         IN  IF a.right /\ b.left
             THEN [runs |-> SubSeq(a.runs, 1, Len(a.runs) - 1)
                            \o << a.runs[Len(a.runs)] \o b.runs[1] >>
                            \o Tail(b.runs),
                   left |-> a.left,
                   right |-> b.right]
             ELSE [runs |-> a.runs \o b.runs, left |-> a.left, right |-> b.right]

\* A run is a match of the pattern when it is made of letters only and is
\* long enough: \b holds at neither end of a shorter piece of it.
is_match(run) == Len(run) >= MinWordLen /\ \A k \in 1..Len(run) : IsAlpha(run[k])

\* re.findall(r'\b[a-zA-Z]{3,}\b', s)
findall_words(s) == SelectSeq(word_runs(s, 1, Len(s)).runs, is_match)

\* Counter(words): each word of the list adds one to its entry
Counter(words) ==
    [w \in {words[i] : i \in 1..Len(words)} |->
        Cardinality({i \in 1..Len(words) : words[i] = w})]

stop_words ==
    { <<"t","h","e">>, <<"a","n","d">>, <<"o","f">>, <<"i","n">>,
      <<"t","o">>, <<"a">>, <<"f","o","r">>, <<"w","i","t","h">>,
      <<"o","n">>, <<"a","s">>, <<"b","y">>, <<"f","r","o","m">>,
      <<"t","h","a","t">>, <<"t","h","i","s">>, <<"i","s">>, <<"a","r","e">>,
      <<"w","a","s">>, <<"w","e","r","e">>, <<"b","e">>, <<"b","e","e","n">>,
      <<"h","a","v","e">>, <<"h","a","s">>, <<"h","a","d">>, <<"b","u","t">>,
      <<"n","o","t">>, <<"w","h","i","c","h">>, <<"t","h","e","i","r">>,
      <<"c","a","n">>, <<"w","e">>, <<"o","u","r">>,
      <<"a","n">>, <<"w","i","l","l">>, <<"s","t","u","d","y">> }

(***************************************************************************)
(* pd.to_datetime(..., errors='coerce') on one cell: an ISO date           *)
(* YYYY-MM-DD of the calendar parses, anything else becomes NaT.           *)
(***************************************************************************)
IsLeap(y) == (y % 4 = 0 /\ y % 100 # 0) \/ y % 400 = 0

DaysInMonth(y, m) ==
    IF m = 2 THEN (IF IsLeap(y) THEN 29 ELSE 28)
    ELSE IF m \in {4, 6, 9, 11} THEN 30 ELSE 31

Num(s, a, b) ==
    LET RECURSIVE go(_, _)
        go(i, acc) == IF i > b THEN acc ELSE go(i + 1, acc * 10 + DigitVal[s[i]])
    IN  go(a, 0)

to_datetime(cell) ==
    IF IsNone(cell) THEN None
    ELSE LET s == Get(cell) IN
         IF /\ Len(s) = 10
            /\ s[5] = "-" /\ s[8] = "-"
            /\ \A i \in {1, 2, 3, 4, 6, 7, 9, 10} : s[i] \in Digits
         THEN LET y == Num(s, 1, 4)
                  m == Num(s, 6, 7)
                  d == Num(s, 9, 10)
              IN  IF y >= 1 /\ m \in 1..12 /\ d \in 1..DaysInMonth(y, m)
                  THEN Some([year |-> y, month |-> m, day |-> d])
                  ELSE None
         ELSE None

(***************************************************************************)
(* pandas Series: a column is the sequence of its cells.                   *)
(***************************************************************************)
\* Series.dropna()
dropna(vals) == SelectSeq(vals, NotNone)

\* Series.notna().sum()
notna_sum(vals) == Len(dropna(vals))

\* the distinct values in the order of their first occurrence
RECURSIVE unique(_)
unique(vals) ==
    IF vals = << >> THEN << >>
    ELSE LET init == unique(SubSeq(vals, 1, Len(vals) - 1))
             v == vals[Len(vals)]
         IN  IF \E i \in 1..Len(init) : init[i] = v THEN init ELSE Append(init, v)

occurrences(vals, v) == Cardinality({i \in 1..Len(vals) : vals[i] = v})

\* insert e behind every entry that counts at least as much: a stable
\* descending order
RECURSIVE insert_desc(_, _)
insert_desc(sorted, e) ==
    IF sorted = << >> THEN << e >>
    ELSE IF Head(sorted).count >= e.count
         THEN << Head(sorted) >> \o insert_desc(Tail(sorted), e)
         ELSE << e >> \o sorted

RECURSIVE sort_desc(_)
sort_desc(entries) ==
    IF entries = << >> THEN << >>
    ELSE insert_desc(sort_desc(SubSeq(entries, 1, Len(entries) - 1)),
                     entries[Len(entries)])

\* value_counts(sort=False): the entries in the order of first occurrence
value_counts_unsorted(vals) ==
    [i \in 1..Len(unique(dropna(vals))) |->
        [key |-> Get(unique(dropna(vals))[i]),
         count |-> occurrences(dropna(vals), unique(dropna(vals))[i])]]

\* Series.value_counts(): NaN is dropped, the values are counted and the
\* entries ordered by count, largest first
value_counts(vals) ==
    LET present == dropna(vals)
        keys == unique(present)
    IN  sort_desc([i \in 1..Len(keys) |->
                      [key |-> Get(keys[i]), count |-> occurrences(present, keys[i])]])

RECURSIVE insert_key(_, _)
insert_key(sorted, e) ==
    IF sorted = << >> THEN << e >>
    ELSE IF Head(sorted).key <= e.key
         THEN << Head(sorted) >> \o insert_key(Tail(sorted), e)
         ELSE << e >> \o sorted

\* Series.sort_index() of a value_counts() with integer keys
RECURSIVE sort_index(_)
sort_index(entries) ==
    IF entries = << >> THEN << >>
    ELSE insert_key(sort_index(SubSeq(entries, 1, Len(entries) - 1)),
                    entries[Len(entries)])

\* head(n): the first n entries; for a negative n, all but the last -n
head(s, n) ==
    IF n >= 0
    THEN SubSeq(s, 1, IF n < Len(s) THEN n ELSE Len(s))
    ELSE SubSeq(s, 1, IF Len(s) + n > 0 THEN Len(s) + n ELSE 0)

(***************************************************************************)
(* pandas DataFrame: the set of its columns and the sequence of its rows,  *)
(* each row a function from the columns to cells.                          *)
(***************************************************************************)
column(frame, c) == [i \in 1..Len(frame.rows) |-> frame.rows[i][c]]

\* frame[c] = vals
with_column(frame, c, vals) ==
    [cols |-> frame.cols \cup {c},
     rows |-> [i \in 1..Len(frame.rows) |->
                  [k \in frame.cols \cup {c} |->
                      IF k = c THEN vals[i] ELSE frame.rows[i][k]]]]

\* frame[cols]
select(frame, cols) ==
    [cols |-> cols,
     rows |-> [i \in 1..Len(frame.rows) |-> [k \in cols |-> frame.rows[i][k]]]]

\* read_csv gives a column that has rows and no value in any of them the
\* dtype float64, on which the .str accessor raises AttributeError
has_str_accessor(vals) == vals = << >> \/ \E i \in 1..Len(vals) : NotNone(vals[i])

(***************************************************************************)
(* The files load_data may find at file_path.                              *)
(***************************************************************************)
AllCols == {"title", "abstract", "journal", "publish_time", "source_x"}

Txt_Flu == <<"F","l","u">>

Txt_flu == <<"f","l","u">>

Txt_rna == <<"r","n","a">>

Txt_Bat == <<"B","a","t">>

Txt_The == <<"T","h","e">>

Txt_the == <<"t","h","e">>

RECURSIVE repeat(_, _)
repeat(w, k) == IF k = 0 THEN << >> ELSE << w >> \o repeat(w, k - 1)

\* eleven "Bat"
TitleLancet == join(repeat(Txt_Bat, 11))

\* six "Flu", six "The"
TitleNature == join(repeat(Txt_Flu, 6) \o repeat(Txt_The, 6))

\* four "flu", five "the"
TitleNatureToo == join(repeat(Txt_flu, 4) \o repeat(Txt_the, 5))

\* eleven "rna"
AbstractLancet == join(repeat(Txt_rna, 11))

RowLancet ==
    [title |-> Some(TitleLancet), abstract |-> Some(AbstractLancet),
     journal |-> Some(<<"L","a","n","c","e","t">>), publish_time |-> Some(<<"b","a","d","-","d","a","t","e">>),
     source_x |-> Some(<<"W","H","O">>)]

RowNature ==
    [title |-> Some(TitleNature), abstract |-> Some(<<"F","l","u"," ","o","f"," "," ","b","a","t","s">>),
     journal |-> Some(<<"N","a","t","u","r","e">>), publish_time |-> Some(<<"2","0","2","0","-","0","3","-","0","5">>),
     source_x |-> Some(<<"P","M","C">>)]

RowNatureToo ==
    [title |-> Some(TitleNatureToo), abstract |-> None,
     journal |-> Some(<<"n","a","t","u","r","e"," ">>), publish_time |-> Some(<<"2","0","1","9","-","1","1","-","3","0">>),
     source_x |-> Some(<<"P","M","C">>)]

RowBare ==
    [title |-> Some(Txt_Flu), abstract |-> Some(<<"h","1","n","1"," ","f","l","u","-","l","i","k","e">>),
     journal |-> None, publish_time |-> None,
     source_x |-> None]

RowPool == << RowLancet, RowNature, RowNatureToo, RowBare >>

\* the table the files are cut from: MaxRows rows, the pool over and over
Master == [i \in 1..MaxRows |-> RowPool[((i - 1) % Len(RowPool)) + 1]]

\* every file made of consecutive rows of Master, the header-only file
\* (no row) included
Files ==
    {[cols |-> AllCols, rows |-> SubSeq(Master, first, last)] :
        first \in 1..MaxRows, last \in 0..MaxRows}

\* what is at file_path when it is read: no file, a file read_csv cannot
\* parse, or a table
DiskStates ==
    {[exists |-> FALSE, content |-> None], [exists |-> TRUE, content |-> None]}
    \cup {[exists |-> TRUE, content |-> Some(f)] : f \in Files}

\* top_n of analyze_journals
IntArgs == (0 - MaxArg)..MaxArg

\* n of get_sample_data
NatArgs == 0..MaxArg

\* max_words of create_word_cloud
WordArgs == 1..MaxArg

TextColumns == {"title", "abstract"}

(***************************************************************************)
(* State.                                                                  *)
(*   df, df_clean  the two attributes of the CORD19Analyzer under study    *)
(*   ret           the last method call on it: its name, arguments and     *)
(*                 outcome ("value", "none" for the bare return of a       *)
(*                 guard, "raise" for an exception that leaves the method) *)
(*   cleans        history: how many clean_data calls have run to their    *)
(*                 end since df or df_clean was last assigned by anything  *)
(*                 else (counted up to MaxCleans)                          *)
(*   cache         st.cache_data's entry for load_and_clean_data           *)
(*   run           the outcome of the last run of main()                   *)
(***************************************************************************)
VARIABLES df, df_clean, ret, cleans, cache, run

vars == << df, df_clean, ret, cleans, cache, run >>

Ret(op, arg, kind, val) == [op |-> op, arg |-> arg, kind |-> kind, val |-> val]

NoRun == [section |-> "", passed |-> FALSE, status |-> "none", shown |-> << >>]

\* CORD19Analyzer.__init__, and a process in which main() has not run yet
Init ==
    /\ df = None
    /\ df_clean = None
    /\ ret = Ret("__init__", << >>, "none", << >>)
    /\ cleans = 0
    /\ cache = None
    /\ run = NoRun

(***************************************************************************)
(* CORD19Analyzer.load_data                                                *)
(***************************************************************************)
\* load_data with "self.df = None" in its except branch
load_data_forgetting(d, dc, disk) ==
    IF NotNone(disk.content)
    THEN [df |-> disk.content, df_clean |-> dc, val |-> TRUE]
    ELSE [df |-> None, df_clean |-> dc, val |-> FALSE]

\* the analyzer after load_data and what the call returned
load_data_call(d, dc, disk) ==
    IF NotNone(disk.content)
    THEN [df |-> disk.content, df_clean |-> dc, val |-> TRUE]
    ELSE [df |-> d, df_clean |-> dc, val |-> FALSE]

load_data ==
    \E disk \in DiskStates :
        LET r == load_data_call(df, df_clean, disk) IN
        /\ df' = r.df
        /\ df_clean' = r.df_clean
        /\ ret' = Ret("load_data", << >>, "value", r.val)
        /\ cleans' = IF r.val THEN 0 ELSE cleans
        /\ UNCHANGED << cache, run >>

(***************************************************************************)
(* CORD19Analyzer.clean_data                                               *)
(***************************************************************************)
year_of(parsed) ==
    [i \in 1..Len(parsed) |->
        IF IsNone(parsed[i]) THEN None ELSE Some(Get(parsed[i]).year)]

month_of(parsed) ==
    [i \in 1..Len(parsed) |->
        IF IsNone(parsed[i]) THEN None ELSE Some(Get(parsed[i]).month)]

abstract_word_count(cell) == IF NotNone(cell) THEN split_len(Get(cell)) ELSE 0

journal_clean(cell) == IF NotNone(cell) THEN Some(strip(lower(Get(cell)))) ELSE None

\* The statements of clean_data on a copy of the raw frame, in order.  A
\* missing column (KeyError) or a journal column without the .str accessor
\* (AttributeError) leaves the method, and df_clean as far as it got.
parse_dates(publish) == [i \in 1..Len(publish) |-> to_datetime(publish[i])]

\* the date step followed by dropna(subset=['publish_time'])
with_dates_dropping(frame, parsed) ==
    [cols |-> frame.cols \cup {"year", "month"},
     rows |-> SelectSeq(
                  with_column(with_column(with_column(frame, "publish_time", parsed),
                                          "year", year_of(parsed)),
                              "month", month_of(parsed)).rows,
                  LAMBDA r : NotNone(r["publish_time"]))]

with_dates(frame, parsed) ==
    with_column(with_column(with_column(frame, "publish_time", parsed),
                            "year", year_of(parsed)),
                "month", month_of(parsed))

with_word_counts(frame, abstracts) ==
    with_column(frame, "abstract_word_count",
                [i \in 1..Len(abstracts) |-> abstract_word_count(abstracts[i])])

with_journal_clean(frame, journals) ==
    with_column(frame, "journal_clean",
                [i \in 1..Len(journals) |-> journal_clean(journals[i])])

clean_journals(frame) ==
    IF "journal" \notin frame.cols \/ ~has_str_accessor(column(frame, "journal"))
    THEN [raised |-> TRUE, frame |-> frame]
    ELSE [raised |-> FALSE, frame |-> with_journal_clean(frame, column(frame, "journal"))]

clean_abstracts(frame) ==
    IF "abstract" \notin frame.cols
    THEN [raised |-> TRUE, frame |-> frame]
    ELSE clean_journals(with_word_counts(frame, column(frame, "abstract")))

clean_steps(raw) ==
    IF "publish_time" \notin raw.cols
    THEN [raised |-> TRUE, frame |-> raw]
    ELSE clean_abstracts(with_dates(raw, parse_dates(column(raw, "publish_time"))))

\* clean_data adding the cleaned rows to those df_clean already holds
clean_data_appending(d, dc) ==
    IF IsNone(d) THEN [df_clean |-> dc, kind |-> "none"]
    ELSE IF clean_steps(Get(d)).raised
    THEN [df_clean |-> Some(clean_steps(Get(d)).frame), kind |-> "raise"]
    ELSE IF NotNone(dc) /\ Get(dc).cols = clean_steps(Get(d)).frame.cols
    THEN [df_clean |-> Some([cols |-> Get(dc).cols,
                             rows |-> Get(dc).rows \o clean_steps(Get(d)).frame.rows]),
          kind |-> "value"]
    ELSE [df_clean |-> Some(clean_steps(Get(d)).frame), kind |-> "value"]

\* the analyzer after clean_data and how the call ended
cleaned_to(c) ==
    [df_clean |-> Some(c.frame), kind |-> IF c.raised THEN "raise" ELSE "value"]

clean_data_call(d, dc) ==
    IF IsNone(d) THEN [df_clean |-> dc, kind |-> "none"]
    ELSE cleaned_to(clean_steps(Get(d)))

clean_data ==
    LET r == clean_data_call(df, df_clean) IN
    /\ df_clean' = r.df_clean
    /\ ret' = Ret("clean_data", << >>, r.kind, << >>)
    /\ cleans' = IF r.kind = "none" THEN cleans
                 ELSE IF r.kind = "raise" THEN 0
                 ELSE IF cleans < MaxCleans THEN cleans + 1 ELSE cleans
    /\ UNCHANGED << df, cache, run >>

(***************************************************************************)
(* The analytical methods.  Each is an operator from the analyzer's        *)
(* attributes and the arguments to the outcome [kind, val], and an action  *)
(* that records the outcome in ret; none assigns df or df_clean.           *)
(***************************************************************************)
NaN == None

\* 100 * n / d as an exact fraction; pandas and numpy divide 0 by 0 to NaN
\* (a RuntimeWarning at most), they do not raise
percent(n, d) == IF d = 0 THEN NaN ELSE Some([num |-> 100 * n, den |-> d])

Outcome(kind, val) == [kind |-> kind, val |-> val]

NotReady == Outcome("none", << >>)

Raised == Outcome("raise", << >>)

\* the attributes and the history no analytical method assigns
kept == << df, df_clean, cleans, cache, run >>

Called(op, arg, out) == Ret(op, arg, out.kind, out.val)

\* the order of the columns in metadata.csv
ColOrder == << "source_x", "title", "abstract", "publish_time", "journal" >>

InCols(frame) == SelectSeq(ColOrder, LAMBDA c : c \in frame.cols)

\* CORD19Analyzer.basic_exploration: the table of missing values
basic_exploration_call(d) ==
    IF IsNone(d) THEN NotReady
    ELSE LET frame == Get(d)
             cs == InCols(frame)
             n == Len(frame.rows)
             missing(c) == n - notna_sum(column(frame, c))
         IN  Outcome("value",
                 sort_desc([i \in 1..Len(cs) |->
                     [key |-> cs[i], count |-> missing(cs[i]),
                      percentage |-> percent(missing(cs[i]), n)]]))

basic_exploration ==
    /\ ret' = Called("basic_exploration", << >>, basic_exploration_call(df))
    /\ UNCHANGED kept

max_key(entries) ==
    IF entries = << >> THEN NaN ELSE Some(entries[Len(entries)].key)

\* CORD19Analyzer.analyze_publications_over_time: the counts by year and,
\* for the figure, the counts by month of the latest year
analyze_publications_over_time_call(dc) ==
    IF IsNone(dc) THEN NotReady
    ELSE IF "year" \notin Get(dc).cols THEN Raised
    ELSE LET frame == Get(dc)
             years == column(frame, "year")
             yearly_counts == sort_index(value_counts(years))
             latest_year == max_key(yearly_counts)
             latest == {i \in 1..Len(years) : NotNone(latest_year) /\ years[i] = latest_year}
             months == [i \in 1..Len(years) |->
                           IF i \in latest THEN frame.rows[i]["month"] ELSE None]
         IN  Outcome("value", [yearly_counts |-> yearly_counts,
                               monthly_latest |-> sort_index(value_counts(months))])

analyze_publications_over_time ==
    /\ ret' = Called("analyze_publications_over_time", << >>,
                     analyze_publications_over_time_call(df_clean))
    /\ UNCHANGED kept

\* Series.plot(kind='bar'/'barh') of pandas: whether it draws or raises on a
\* Series without entries is the library's doing, so both are possible
\* outcomes there
plot_outcomes(series) == IF series = << >> THEN BOOLEAN ELSE {TRUE}

\* CORD19Analyzer.analyze_journals
analyze_journals_call(dc, top_n, plotted) ==
    IF IsNone(dc) THEN NotReady
    ELSE IF "journal_clean" \notin Get(dc).cols THEN Raised
    ELSE LET journal_counts == head(value_counts(column(Get(dc), "journal_clean")), top_n)
         IN  IF plotted \in plot_outcomes(journal_counts)
             THEN Outcome("value", journal_counts)
             ELSE Raised

analyze_journals ==
    \E top_n \in IntArgs, plotted \in BOOLEAN :
        /\ ret' = Called("analyze_journals", << top_n >>,
                         analyze_journals_call(df_clean, top_n, plotted))
        /\ UNCHANGED kept

\* ' '.join(frame[text_column].dropna().astype(str)).lower()
all_text(frame, text_column) ==
    LET texts == dropna(column(frame, text_column))
    IN  lower(join([i \in 1..Len(texts) |-> Get(texts[i])]))

\* CORD19Analyzer.create_word_cloud, up to the word cloud: the words of the
\* column that are no stop words and occur more than MinCount times
filtered_words(frame, text_column) ==
    LET word_freq == Counter(findall_words(all_text(frame, text_column)))
    IN  [w \in {w \in DOMAIN word_freq :
                   w \notin stop_words /\ word_freq[w] > MinCount} |-> word_freq[w]]

\* create_word_cloud returning only the max_words most frequent words
word_cloud_truncating(filtered, max_words) ==
    IF DOMAIN filtered = {} THEN Raised
    ELSE LET top == CHOOSE t \in SUBSET DOMAIN filtered :
                        /\ Cardinality(t) = IF max_words < Cardinality(DOMAIN filtered)
                                            THEN max_words
                                            ELSE Cardinality(DOMAIN filtered)
                        /\ \A w \in t, v \in DOMAIN filtered \ t : filtered[w] >= filtered[v]
         IN  Outcome("value", [w \in top |-> filtered[w]])

\* CORD19Analyzer.create_word_cloud, from the word cloud on.  max_words goes
\* to WordCloud and nowhere else; generate_from_frequencies raises ValueError
\* when it is given no word.
word_cloud_call(filtered, max_words) ==
    IF DOMAIN filtered = {} THEN Raised ELSE Outcome("value", filtered)

create_word_cloud_call(dc, text_column, max_words) ==
    IF IsNone(dc) THEN NotReady
    ELSE IF text_column \notin Get(dc).cols THEN Raised
    ELSE word_cloud_call(filtered_words(Get(dc), text_column), max_words)

create_word_cloud ==
    \E text_column \in TextColumns, max_words \in WordArgs :
        /\ ret' = Called("create_word_cloud", << text_column, max_words >>,
                         create_word_cloud_call(df_clean, text_column, max_words))
        /\ UNCHANGED kept

\* how many sources analyze_sources keeps
TopSources == 10

\* CORD19Analyzer.analyze_sources
analyze_sources_call(dc, plotted) ==
    IF IsNone(dc) THEN NotReady
    ELSE IF "source_x" \notin Get(dc).cols THEN Raised
    ELSE LET source_counts == head(value_counts(column(Get(dc), "source_x")), TopSources)
         IN  IF plotted \in plot_outcomes(source_counts)
             THEN Outcome("value", source_counts)
             ELSE Raised

analyze_sources ==
    \E plotted \in BOOLEAN :
        /\ ret' = Called("analyze_sources", << >>, analyze_sources_call(df_clean, plotted))
        /\ UNCHANGED kept

sample_columns == {"title", "abstract", "journal", "year", "source_x"}

\* get_sample_data without its guard: subscripting None raises TypeError
get_sample_data_unguarded(dc, n) ==
    IF IsNone(dc) THEN Raised
    ELSE Outcome("value",
                 [cols |-> sample_columns \cap Get(dc).cols,
                  rows |-> head(select(Get(dc), sample_columns \cap Get(dc).cols).rows, n)])

\* CORD19Analyzer.get_sample_data
get_sample_data_call(dc, n) ==
    IF IsNone(dc) THEN NotReady
    ELSE LET picked == select(Get(dc), sample_columns \cap Get(dc).cols)
         IN  Outcome("value", [cols |-> picked.cols, rows |-> head(picked.rows, n)])

get_sample_data ==
    \E n \in NatArgs :
        /\ ret' = Called("get_sample_data", << n >>, get_sample_data_call(df_clean, n))
        /\ UNCHANGED kept

(***************************************************************************)
(* Any sequence of method calls on one analyzer.                           *)
(***************************************************************************)
Next ==
    \/ load_data
    \/ clean_data
    \/ basic_exploration
    \/ analyze_publications_over_time
    \/ analyze_journals
    \/ create_word_cloud
    \/ analyze_sources
    \/ get_sample_data

Spec == Init /\ [][Next]_vars

(***************************************************************************)
(* src/app.py: one run of main(), which Streamlit starts again on every    *)
(* interaction.  Each run builds its own CORD19Analyzer; df and df_clean   *)
(* are the attributes of the analyzer of the last run.  The module is      *)
(* taken to be importable under the name app.py imports it by.             *)
(***************************************************************************)
Sections ==
    {"Data Overview", "Publication Trends", "Journal Analysis",
     "Text Analysis", "Source Analysis", "Sample Data"}

\* st.slider("Number of top journals to display:", 5, 20, 10)
TopNMin == 5

TopNMax == 20

\* st.slider("Maximum words in word cloud:", 50, 200, 100)
MaxWordsMin == 50

MaxWordsMax == 200

\* st.slider("Number of samples to display:", 5, 50, 10)
SampleMin == 5

SampleMax == 50

\* load_and_clean_data when st.cache_data has no entry for it: the body
\* runs on this run's analyzer; an exception leaves main() and stores
\* nothing
loaded_and_cleaned(l, c) ==
    [df |-> l.df, df_clean |-> c.df_clean, kind |-> c.kind, val |-> c.kind = "value"]

loaded(l) ==
    IF l.val
    THEN loaded_and_cleaned(l, clean_data_call(l.df, l.df_clean))
    ELSE [df |-> l.df, df_clean |-> l.df_clean, kind |-> "value", val |-> FALSE]

load_and_clean_data(disk) == loaded(load_data_call(None, None, disk))

\* the ratio computed on Python integers: ZeroDivisionError on no rows
completeness_dividing(dc, col) ==
    IF IsNone(dc) \/ col \notin Get(dc).cols THEN Raised
    ELSE IF Len(Get(dc).rows) = 0 THEN Raised
    ELSE Outcome("value",
                 percent(notna_sum(column(Get(dc), col)), Len(Get(dc).rows)))

\* (column.notna().sum() / len(df_clean)) * 100 of the Sample Data section;
\* subscripting None raises TypeError
completeness(dc, col) ==
    IF IsNone(dc) \/ col \notin Get(dc).cols THEN Raised
    ELSE Outcome("value",
                 percent(notna_sum(column(Get(dc), col)), Len(Get(dc).rows)))

\* what the widgets of a section hand to it; a widget the section does not
\* show keeps the first value
Widgets(section) ==
    LET idle == [top_n |-> TopNMin, text_source |-> "title", max_words |-> MaxWordsMin,
                 sample_size |-> SampleMin, plotted |-> TRUE]
    IN
    CASE section = "Journal Analysis" ->
            {[idle EXCEPT !.top_n = t, !.plotted = p] :
                t \in {TopNMin, TopNMax}, p \in BOOLEAN}
      [] section = "Text Analysis" ->
            {[idle EXCEPT !.text_source = c, !.max_words = m] :
                c \in TextColumns, m \in {MaxWordsMin, MaxWordsMax}}
      [] section = "Source Analysis" ->
            {[idle EXCEPT !.plotted = p] : p \in BOOLEAN}
      [] section = "Sample Data" ->
            {[idle EXCEPT !.sample_size = n] : n \in {SampleMin, SampleMax}}
      [] OTHER -> {idle}

\* the section of main() the sidebar selects, on this run's analyzer: how
\* it ends and, for Sample Data, the three metrics it shows
section_call(d, dc, section, w) ==
    LET ok == [status |-> "ok", shown |-> << >>]
        failed == [status |-> "raise", shown |-> << >>]
    IN
    CASE section = "Data Overview" ->
            IF IsNone(d) THEN failed ELSE ok
      [] section = "Publication Trends" ->
            IF IsNone(dc) \/ "year" \notin Get(dc).cols THEN failed
            ELSE IF dropna(column(Get(dc), "year")) = << >> THEN failed
            ELSE ok
      [] section = "Journal Analysis" ->
            LET out == analyze_journals_call(dc, w.top_n, w.plotted)
            IN  IF out.kind # "value" THEN failed
                ELSE IF out.val = << >> THEN failed
                ELSE ok
      [] section = "Text Analysis" ->
            IF create_word_cloud_call(dc, w.text_source, w.max_words).kind # "value"
            THEN failed
            ELSE ok
      [] section = "Source Analysis" ->
            IF analyze_sources_call(dc, w.plotted).kind # "value" THEN failed ELSE ok
      [] OTHER ->
            LET metrics == << completeness(dc, "title"), completeness(dc, "abstract"),
                              completeness(dc, "journal") >>
            IN  IF get_sample_data_call(dc, w.sample_size).kind # "value" THEN failed
                ELSE IF \E i \in 1..3 : metrics[i].kind # "value" THEN failed
                ELSE [status |-> "ok", shown |-> [i \in 1..3 |-> metrics[i].val]]

\* load_and_clean_data under @st.cache_data: the entry is keyed by the
\* function alone, so a hit returns the stored value and runs nothing on
\* this run's analyzer
cached_load_and_clean_data(entry, disk) ==
    IF NotNone(entry)
    THEN [df |-> None, df_clean |-> None, kind |-> "value", val |-> Get(entry)]
    ELSE load_and_clean_data(disk)

\* main() from the guard of line 81 on
guarded(called, section, shown) ==
    IF called.kind = "raise"
    THEN [section |-> section, passed |-> FALSE, status |-> "raise", shown |-> << >>]
    ELSE IF ~called.val
    THEN [section |-> section, passed |-> FALSE, status |-> "load failed", shown |-> << >>]
    ELSE [section |-> section, passed |-> TRUE,
          status |-> shown.status, shown |-> shown.shown]

\* main() from the analyzer of line 71 on
analysed(entry, called, section, w) ==
    [df |-> called.df,
     df_clean |-> called.df_clean,
     cache |-> IF called.kind = "value" THEN Some(called.val) ELSE entry,
     run |-> guarded(called, section,
                     section_call(called.df, called.df_clean, section, w))]

\* one run of main(): this run's analyzer, the cache entry and what the run
\* came to
main_call(entry, disk, section, w) ==
    IF ~disk.exists
    THEN \* "Data file not found": no analyzer is made
         [df |-> None, df_clean |-> None, cache |-> entry,
          run |-> [section |-> section, passed |-> FALSE,
                   status |-> "no file", shown |-> << >>]]
    ELSE analysed(entry, cached_load_and_clean_data(entry, disk), section, w)

main ==
    \E disk \in DiskStates, section \in Sections :
        \E w \in Widgets(section) :
            /\ df' = main_call(cache, disk, section, w).df
            /\ df_clean' = main_call(cache, disk, section, w).df_clean
            /\ cache' = main_call(cache, disk, section, w).cache
            /\ run' = main_call(cache, disk, section, w).run
            /\ UNCHANGED << ret, cleans >>

AppNext == main

AppSpec == Init /\ [][AppNext]_vars

(***************************************************************************)
(* Properties.  A step whose ret' names a method is a call of that method  *)
(* (or leaves everything as it is): no other step writes that name.        *)
(***************************************************************************)
\* the methods that read df_clean
CleanedOps ==
    {"analyze_publications_over_time", "analyze_journals", "create_word_cloud",
     "analyze_sources", "get_sample_data"}

\* every method but load_data and clean_data
AnalyticalOps == CleanedOps \cup {"basic_exploration"}

C2_FailedLoadKeepsState ==
    [][(ret'.op = "load_data" /\ ret'.val = FALSE)
          => (ret'.kind = "value" /\ df' = df /\ df_clean' = df_clean)]_vars

\* C2: a load failed on an analyzer that had loaded and cleaned before
C2_Witness ==
    /\ ret.op = "load_data"
    /\ ret.val = FALSE
    /\ NotNone(df)
    /\ NotNone(df_clean)
    /\ cleans > 0

\* C3: after clean_data has run to its end, df_clean has as many rows as
\* df, and its i-th row is the i-th row of df: the raw cells are the same,
\* publish_time is that row's parsed date.
C3_CleanKeepsRows ==
    (ret.op = "clean_data" /\ ret.kind = "value")
        => /\ NotNone(df) /\ NotNone(df_clean)
           /\ Len(Get(df_clean).rows) = Len(Get(df).rows)
           /\ \A i \in 1..Len(Get(df).rows) :
                 /\ \A c \in Get(df).cols \ {"publish_time"} :
                       Get(df_clean).rows[i][c] = Get(df).rows[i][c]
                 /\ Get(df_clean).rows[i]["publish_time"]
                       = to_datetime(Get(df).rows[i]["publish_time"])

\* C3: a file of several rows was cleaned, one of them with a publish_time
\* that does not parse
C3_Witness ==
    /\ ret.op = "clean_data"
    /\ ret.kind = "value"
    /\ Len(Get(df).rows) >= 2
    /\ \E i \in 1..Len(Get(df).rows) :
          /\ NotNone(Get(df).rows[i]["publish_time"])
          /\ IsNone(Get(df_clean).rows[i]["year"])

RECURSIVE SumCounts(_)
SumCounts(entries) ==
    IF entries = << >> THEN 0 ELSE Head(entries).count + SumCounts(Tail(entries))

\* the rows of the cleaned frame whose journal_clean is v
RowsWithJournal(v) ==
    {k \in 1..Len(Get(df_clean).rows) : Get(df_clean).rows[k]["journal_clean"] = v}

\* the journals of the cleaned frame
PresentJournals ==
    {Get(df_clean).rows[k]["journal_clean"] :
        k \in {j \in 1..Len(Get(df_clean).rows) :
                  NotNone(Get(df_clean).rows[j]["journal_clean"])}}

\* C4: for a positive top_n, the ranking analyze_journals returns has at
\* most top_n entries, of distinct journals, with counts that do not
\* increase; each count is the number of rows with that journal_clean; and
\* when top_n cuts nothing off, the counts add up to the number of rows that
\* have a journal_clean.
C4_TopJournals ==
    (ret.op = "analyze_journals" /\ ret.kind = "value" /\ ret.arg[1] >= 1)
        => /\ Len(ret.val) <= ret.arg[1]
           /\ \A i \in 1..Len(ret.val) - 1 : ret.val[i].count >= ret.val[i + 1].count
           /\ \A i, j \in 1..Len(ret.val) : ret.val[i].key = ret.val[j].key => i = j
           /\ \A i \in 1..Len(ret.val) :
                 ret.val[i].count = Cardinality(RowsWithJournal(Some(ret.val[i].key)))
           /\ ret.arg[1] >= Cardinality(PresentJournals)
                 => SumCounts(ret.val)
                       = Len(Get(df_clean).rows) - Cardinality(RowsWithJournal(None))

\* C4: a ranking of two journals with different counts, of a frame in which
\* a row has no journal and two rows name one journal in different spellings
C4_Witness ==
    /\ ret.op = "analyze_journals"
    /\ ret.kind = "value"
    /\ ret.arg[1] >= 1
    /\ Len(ret.val) = 2
    /\ ret.val[1].count > ret.val[2].count
    /\ RowsWithJournal(None) # {}
    /\ \E i, j \in RowsWithJournal(Some(ret.val[1].key)) :
          Get(df_clean).rows[i]["journal"] # Get(df_clean).rows[j]["journal"]

\* C5, as stated: for a top_n below 1, the ranking analyze_journals returns
\* is empty.
C5_NonPositiveTopNEmpty ==
    (ret.op = "analyze_journals" /\ ret.kind = "value" /\ ret.arg[1] < 1)
        => ret.val = << >>

\* C6, as stated: the mapping create_word_cloud returns has at most
\* max_words entries, and no word that passed the filters and was left out
\* counts more than one that was kept.
C6_TruncatedToMaxWords ==
    (ret.op = "create_word_cloud" /\ ret.kind = "value")
        => LET words == findall_words(all_text(Get(df_clean), ret.arg[1]))
               count(w) == Cardinality({i \in 1..Len(words) : words[i] = w})
               passed == {w \in {words[i] : i \in 1..Len(words)} :
                             w \notin stop_words /\ count(w) > MinCount}
           IN  /\ Cardinality(DOMAIN ret.val) <= ret.arg[2]
               /\ DOMAIN ret.val \subseteq passed
               /\ \A w \in DOMAIN ret.val, v \in passed \ DOMAIN ret.val :
                     count(w) >= count(v)

\* C6, amended: the mapping create_word_cloud returns is not cut to
\* max_words: it holds every word of the column that is no stop word and
\* occurs more than ten times, each with the number of its occurrences,
\* whatever max_words is.
C6_AllFilteredWords ==
    (ret.op = "create_word_cloud" /\ ret.kind = "value")
        => LET words == findall_words(all_text(Get(df_clean), ret.arg[1]))
               count(w) == Cardinality({i \in 1..Len(words) : words[i] = w})
               passed == {w \in {words[i] : i \in 1..Len(words)} :
                             w \notin stop_words /\ count(w) > MinCount}
           IN  /\ DOMAIN ret.val = passed
               /\ \A w \in passed : ret.val[w] = count(w)

\* C6: a mapping of more words than max_words was returned, for a column in
\* which a stop word also occurs more than ten times
C6_Witness ==
    /\ ret.op = "create_word_cloud"
    /\ ret.kind = "value"
    /\ Cardinality(DOMAIN ret.val) > ret.arg[2]
    /\ LET words == findall_words(all_text(Get(df_clean), ret.arg[1]))
       IN  \E w \in stop_words :
              Cardinality({i \in 1..Len(words) : words[i] = w}) > MinCount

C8_CleanIdempotent ==
    [][(cleans > 0 /\ ret'.op = "clean_data")
          => (ret'.kind = "value" /\ df_clean' = df_clean /\ df' = df)]_vars

\* C8: clean_data has completed twice in a row on a file of several rows
\* with dates that parse, dates that do not, abstracts and journals
C8_Witness ==
    /\ cleans >= 2
    /\ ret.op = "clean_data"
    /\ Len(Get(df_clean).rows) >= 3
    /\ \E i, j \in 1..Len(Get(df_clean).rows) :
          /\ NotNone(Get(df_clean).rows[i]["year"])
          /\ IsNone(Get(df_clean).rows[j]["year"])
          /\ Get(df_clean).rows[i]["abstract_word_count"] > 0
          /\ NotNone(Get(df_clean).rows[j]["journal_clean"])

\* C9, as stated: whenever a run of main() is past the guard on
\* load_and_clean_data, the analyzer of that run has df and df_clean.
C9_PastGuardLoaded == run.passed => (NotNone(df) /\ NotNone(df_clean))

\* C10, as stated: if df_clean is present then df is present and df_clean
\* is the cleaning of the current df.
C10_CleanMatchesRaw ==
    NotNone(df_clean)
        => /\ NotNone(df)
           /\ Get(df_clean).cols = clean_steps(Get(df)).frame.cols
           /\ Len(Get(df_clean).rows) = Len(Get(df).rows)
           /\ Get(df_clean).rows = clean_steps(Get(df)).frame.rows

====
